---- MODULE Spec2Model ----
(***************************************************************************)
(* The gateway service of the document comparison pipeline                  *)
(* (src/services/gateway/main.py): POST /upload, its background publish     *)
(* task and POST /compare, all running as coroutines of one event loop     *)
(* over ONE shared psycopg connection (db_conn) and therefore over one      *)
(* shared database transaction.                                            *)
(*                                                                         *)
(* A coroutine yields only at an await, so every action below is the code   *)
(* of a handler from one await on the store, the engine or the bus to the   *)
(* next.  The connection is modelled as psycopg/PostgreSQL behave:          *)
(*   - execute() on an idle connection opens a transaction implicitly;      *)
(*   - a statement that fails aborts the transaction: its uncommitted       *)
(*     writes are lost and every later execute() raises                     *)
(*     InFailedSqlTransaction until the transaction is ended;               *)
(*   - commit() on an aborted transaction is answered with ROLLBACK and     *)
(*     raises nothing;                                                      *)
(*   - the code never calls rollback().                                     *)
(***************************************************************************)
EXTENDS Integers, Sequences, FiniteSets, TLC

\* Number of POST /upload requests served.
NumUploads == 2
\* Number of POST /compare requests served.
NumCompares == 1
\* Number of infrastructure faults (blob store, metadata store, bus) injected.
MaxFaults == 1

\* Number of POST /compare requests a client sends again after a response.
NumResubmits == 1

\* Number of messages published to the page.chunked queue.
NumMessages == 2

Uploads == 1..NumUploads
\* The compare requests that run beside the uploads.
Compares == 1..NumCompares
\* The compare requests a client resubmits, one after the other.
Resubmits == (NumCompares + 1)..(NumCompares + NumResubmits)
AllCompares == Compares \cup Resubmits

\* The byte payloads a client uploads.
Contents == {"c1", "c2"}
\* The document ids a client names in a compare request (never validated).
DocPairs == {<<"dA", "dB">>, <<"dB", "dA">>}
\* What the comparison engine answers: a 200 with a result, a non-200,
\* or the call raises httpx.TimeoutException / httpx.ConnectError.
EngineResults == {"r0", "r1", "r2"}
\* The JSON object of each answer, response.json(): "r0" is {}, the others
\* carry a match list (the match_type of each match) and the aggregates the
\* engine computed; those of "r2" disagree with its match list.
EngineBody(r) ==
    CASE r = "r1" -> [matches |-> <<"exact", "different">>,
                      compliant_count |-> 1, non_compliant_count |-> 1,
                      compliant_percentage |-> 50, non_compliant_percentage |-> 50]
      [] r = "r2" -> [matches |-> <<"exact", "different">>,
                      compliant_count |-> 2, non_compliant_count |-> 0,
                      compliant_percentage |-> 100, non_compliant_percentage |-> 0]
      [] OTHER -> <<>>
EngineFailures == {"non200", "timeout", "connect"}

\* The bodies published to page.chunked: a body that is not JSON, or a JSON
\* object for page page_no of document "d1" whose chunks carry a text or not.
ChunkLists == {<<>>, <<[has_text |-> TRUE]>>, <<[has_text |-> FALSE]>>,
               <<[has_text |-> TRUE], [has_text |-> FALSE]>>}
PageChunkedBodies ==
    {[json |-> FALSE, doc_id |-> "null", page_no |-> 0, chunks |-> <<>>]}
    \cup {[json |-> TRUE, doc_id |-> "d1", page_no |-> n, chunks |-> ch] :
             n \in {1, 2}, ch \in ChunkLists}
PageKeys == {<<"d1", n>> : n \in {1, 2}}

VARIABLES
    txStatus,    \* db_conn's transaction status: "IDLE", "INTRANS", "INERROR"
    committed,   \* the tables as committed: [docs, comps]
    working,     \* the tables as the open transaction sees them
    blobs,       \* keys stored in the S3 bucket
    ingest_pdf,  \* messages published to the ingest.pdf queue, in order
    faults,      \* infrastructure faults injected so far
    upc,         \* position of each upload request
    ucontent,    \* bytes each upload request carries
    uresp,       \* HTTP response of each upload request
    cpc,         \* position of each compare request
    creq,        \* <<left_doc_id, right_doc_id>> of each compare request
    cengine,     \* what the engine answered to each compare request
    cresp,       \* HTTP response of each compare request
    cseen,       \* last response of GET /comparisons/{id}, per comparison id
    engineCalls, \* number of POSTs each compare request sent to the engine
    report,      \* last response of GET /comparisons/{id}/report
    published,   \* bodies published to page.chunked so far, in order
    page_chunked,\* messages ready in the page.chunked queue, in order
    delivery,    \* the message the embedder holds unacknowledged, and its stage
    encodes,     \* model.encode calls made per (doc_id, page_no)
    acked,       \* ids of the messages the embedder acknowledged
    rejected,    \* ids of the messages the embedder rejected
    db_conn,     \* the global db_conn: 0 is None, else a connection id
    dbOpen,      \* ids of the store connections that are open
    dbMade,      \* number of store connections established so far
    dbpc,        \* position of each caller of get_db
    dbgot,       \* what get_db returned to each caller
    rabbitmq_connection, \* the global: 0 is None, else a connection id
    rabbitmq_channel,    \* the global: 0 is None, else its connection's id
    busOpen,     \* ids of the bus connections that are open
    declared,    \* queues declared on the broker
    chpc,        \* position of each caller of get_rabbitmq_channel
    chconn,      \* the connection each caller established
    chgot        \* what get_rabbitmq_channel returned to each caller

dbvars == <<txStatus, committed, working>>
uvars == <<upc, ucontent, uresp>>
cvars == <<cpc, creq, cengine, cresp, cseen, engineCalls>>
evars == <<published, page_chunked, delivery, encodes, acked, rejected>>
kvars == <<db_conn, dbOpen, dbMade, dbpc, dbgot, rabbitmq_connection,
           rabbitmq_channel, busOpen, declared, chpc, chconn, chgot>>
xvars == <<report, evars, kvars>>
gvars == <<txStatus, committed, working, blobs, ingest_pdf,
           upc, ucontent, uresp, cpc, creq, cengine, cresp, cseen,
           engineCalls, report, kvars>>
vars == <<txStatus, committed, working, blobs, ingest_pdf, faults,
          upc, ucontent, uresp, cpc, creq, cengine, cresp, cseen,
          engineCalls, report,
          published, page_chunked, delivery, encodes, acked, rejected,
          db_conn, dbOpen, dbMade, dbpc, dbgot, rabbitmq_connection,
          rabbitmq_channel, busOpen, declared, chpc, chconn, chgot>>

----------------------------------------------------------------------------
\* Pure helpers.

\* hashlib.sha256(data).hexdigest(): distinct payloads, distinct digests.
calculate_sha256(c) == CASE c = "c1" -> "h1" [] c = "c2" -> "h2" [] OTHER -> "h0"

\* str(uuid.uuid4()): a fresh id per request.
NewDocId(u) == u
NewComparisonId(c) == c

\* s3_key = f"pdfs/{sha256}.pdf"
S3Key(h) == <<"pdfs", h, "pdf">>

\* file.filename: every request names its file differently.
Filename(u) == <<"file", u>>
\* len(content)
Size(c) == CASE c = "c1" -> 10 [] c = "c2" -> 20 [] OTHER -> 0
\* get_pdf_page_count(content): len(pdf_reader.pages), 1 when unreadable.
get_pdf_page_count(c) == CASE c = "c1" -> 1 [] c = "c2" -> 3 [] OTHER -> 1
\* datetime.utcnow() is read twice by the creating request: for the row
\* before the INSERT and for the response after the commit.
InsertTime(u) == <<"insert", u>>
ResponseTime(u) == <<"response", u>>

\* The documents row the request inserts.
NewDocumentRow(u, c) ==
    [id |-> NewDocId(u), sha256 |-> calculate_sha256(c), filename |-> Filename(u),
     size |-> Size(c), page_count |-> get_pdf_page_count(c),
     created_at |-> InsertTime(u), status |-> "processing"]

NoRow == [status |-> "absent", result |-> "null", completed_at |-> "null",
          left |-> "null", right |-> "null"]
NoDocument == [filename |-> <<"file", 0>>, size |-> 0, sha256 |-> "null",
               page_count |-> 0, status |-> "null", created_at |-> <<"never", 0>>]
NoResp == [code |-> 0, doc_id |-> 0, detail |-> "none", doc |-> NoDocument]
NoCResp == [code |-> 0, result |-> "null", detail |-> "none"]
\* A response without a rendered report.
NoRender == [matches |-> <<>>, compliant_count |-> 0, non_compliant_count |-> 0,
             compliant_percentage |-> 0, non_compliant_percentage |-> 0]
NoReport == [id |-> 0, code |-> 0, body |-> NoRender]
NoBody == [json |-> FALSE, doc_id |-> "null", page_no |-> 0, chunks |-> <<>>]
NoDelivery == [id |-> 0, body |-> NoBody, redelivered |-> FALSE, stage |-> "none"]
NotRead == [code |-> 0, status |-> "absent", result |-> "null", completed_at |-> "null"]

\* SELECT ... FROM documents WHERE sha256 = h, on the open transaction.
SelectBySha(h) == {r \in working.docs : r.sha256 = h}

\* May one more infrastructure fault be injected?
FaultChoices == IF faults < MaxFaults THEN {FALSE, TRUE} ELSE {FALSE}

----------------------------------------------------------------------------
\* The shared connection.

\* cur.execute(stmt) accepted: the transaction is (now) open and sees `w`.
ExecOk(w) ==
    /\ txStatus' = "INTRANS"
    /\ working' = w
    /\ UNCHANGED committed

\* cur.execute(stmt) answered with an error: the transaction is aborted and
\* what it had written is gone.
ExecError ==
    /\ txStatus' = "INERROR"
    /\ working' = committed
    /\ UNCHANGED committed

\* conn.commit(): COMMIT an open transaction; an aborted one is rolled back.
Commit ==
    /\ txStatus' = "IDLE"
    /\ committed' = IF txStatus = "INERROR" THEN committed ELSE working
    /\ working' = IF txStatus = "INERROR" THEN committed ELSE working

----------------------------------------------------------------------------
Init ==
    /\ txStatus = "IDLE"
    /\ committed = [docs |-> {}, comps |-> [c \in AllCompares |-> NoRow]]
    /\ working = [docs |-> {}, comps |-> [c \in AllCompares |-> NoRow]]
    /\ blobs = {}
    /\ ingest_pdf = <<>>
    /\ faults = 0
    /\ upc = [u \in Uploads |-> "idle"]
    /\ ucontent = [u \in Uploads |-> "none"]
    /\ uresp = [u \in Uploads |-> NoResp]
    /\ cpc = [c \in AllCompares |-> "idle"]
    /\ creq = [c \in AllCompares |-> <<"null", "null">>]
    /\ cengine = [c \in AllCompares |-> "none"]
    /\ cresp = [c \in AllCompares |-> NoCResp]
    /\ cseen = [c \in AllCompares |-> NotRead]
    /\ engineCalls = [c \in AllCompares |-> 0]
    /\ report = NoReport
    /\ published = <<>>
    /\ page_chunked = <<>>
    /\ delivery = NoDelivery
    /\ encodes = [k \in PageKeys |-> 0]
    /\ acked = {}
    /\ rejected = {}
    /\ db_conn = 1
    /\ dbOpen = {1}
    /\ dbMade = 1
    /\ dbpc = [t \in Uploads |-> "idle"]
    /\ dbgot = [t \in Uploads |-> 0]
    /\ rabbitmq_connection = 0
    /\ rabbitmq_channel = 0
    /\ busOpen = {}
    /\ declared = {}
    /\ chpc = [t \in Uploads |-> "idle"]
    /\ chconn = [t \in Uploads |-> 0]
    /\ chgot = [t \in Uploads |-> 0]

----------------------------------------------------------------------------
\* POST /upload (upload_document).

\* The 500 of a request whose publish task was scheduled before its writes:
\* the task still runs.
UploadFailsTaskScheduled(u, why) ==
    /\ upc' = [upc EXCEPT ![u] = "publish"]
    /\ uresp' = [uresp EXCEPT ![u] = [code |-> 500, doc_id |-> 0, detail |-> why,
                                       doc |-> NoDocument]]
    /\ UNCHANGED ucontent

\* except Exception -> HTTPException(500, "Upload failed: ..."): the request
\* is over, nothing is scheduled.
UploadFails(u, why) ==
    /\ upc' = [upc EXCEPT ![u] = "done"]
    /\ uresp' = [uresp EXCEPT ![u] = [code |-> 500, doc_id |-> 0, detail |-> why,
                                       doc |-> NoDocument]]
    /\ UNCHANGED ucontent

\* A dedup hit answered with the id generated for this request instead of
\* the stored one.
ExistingResponseNewId(u, row) ==
    [code |-> 200, doc_id |-> NewDocId(u), detail |-> "existing",
     doc |-> [filename |-> row.filename, size |-> row.size, sha256 |-> row.sha256,
              page_count |-> row.page_count, status |-> row.status,
              created_at |-> row.created_at]]

\* A dedup hit answered with the descriptive fields of this request's file
\* instead of the stored ones.
ExistingResponseOwnFile(u, row) ==
    [code |-> 200, doc_id |-> row.id, detail |-> "existing",
     doc |-> [filename |-> Filename(u), size |-> row.size, sha256 |-> row.sha256,
              page_count |-> row.page_count, status |-> row.status,
              created_at |-> ResponseTime(u)]]

\* The DocumentResponse built from the stored row on a dedup hit.
ExistingResponse(u, row) ==
    [code |-> 200, doc_id |-> row.id, detail |-> "existing",
     doc |-> [filename |-> row.filename, size |-> row.size, sha256 |-> row.sha256,
              page_count |-> row.page_count, status |-> row.status,
              created_at |-> row.created_at]]

\* The DocumentResponse of the request that created the row.
CreatedResponse(u) ==
    [code |-> 200, doc_id |-> NewDocId(u), detail |-> "created",
     doc |-> [filename |-> Filename(u), size |-> Size(ucontent[u]),
              sha256 |-> calculate_sha256(ucontent[u]),
              page_count |-> get_pdf_page_count(ucontent[u]),
              status |-> "processing", created_at |-> ResponseTime(u)]]

\* content = await file.read(); sha256 = calculate_sha256(content)
upload_read(u, c) ==
    /\ upc[u] = "idle"
    /\ upc' = [upc EXCEPT ![u] = "select"]
    /\ ucontent' = [ucontent EXCEPT ![u] = c]
    /\ UNCHANGED <<uresp, dbvars, blobs, ingest_pdf, faults, cvars, xvars>>

\* SELECT id FROM documents WHERE sha256 = %s; when no row is found the code
\* runs on without an await through uuid4 and s3_client.put_object (a
\* blocking call), up to the await of the INSERT.
upload_select(u) ==
    /\ upc[u] = "select"
    /\ UNCHANGED <<ingest_pdf, cvars, xvars>>
    /\ LET h == calculate_sha256(ucontent[u]) IN
       IF txStatus = "INERROR"
       THEN /\ UploadFails(u, "InFailedSqlTransaction")
            /\ UNCHANGED <<dbvars, blobs, faults>>
       ELSE /\ ExecOk(working)
            /\ IF SelectBySha(h) # {}
               THEN /\ upc' = [upc EXCEPT ![u] = "reselect"]
                    /\ UNCHANGED <<ucontent, uresp, blobs, faults>>
               ELSE \E fault \in FaultChoices :
                      IF fault
                      THEN /\ UploadFails(u, "S3Error")
                           /\ faults' = faults + 1
                           /\ UNCHANGED blobs
                      ELSE /\ blobs' = blobs \cup {S3Key(h)}
                           /\ upc' = [upc EXCEPT ![u] = "insert"]
                           /\ UNCHANGED <<ucontent, uresp, faults>>

\* SELECT * FROM documents WHERE sha256 = %s; return DocumentResponse(row...).
\* row is None when the row seen by the first SELECT has been rolled back
\* in between: row[0] raises TypeError.
upload_reselect(u) ==
    /\ upc[u] = "reselect"
    /\ UNCHANGED <<blobs, ingest_pdf, faults, cvars, xvars>>
    /\ LET rows == SelectBySha(calculate_sha256(ucontent[u])) IN
       IF txStatus = "INERROR"
       THEN /\ UploadFails(u, "InFailedSqlTransaction")
            /\ UNCHANGED dbvars
       ELSE /\ ExecOk(working)
            /\ IF rows = {}
               THEN UploadFails(u, "TypeError")
               ELSE /\ upc' = [upc EXCEPT ![u] = "done"]
                    /\ uresp' = [uresp EXCEPT ![u] =
                                   ExistingResponse(u, CHOOSE r \in rows : TRUE)]
                    /\ UNCHANGED ucontent

\* INSERT INTO documents (...) VALUES (doc_id, sha256, ..., "processing").
\* sha256 is UNIQUE: a second row with the same digest is a UniqueViolation.
upload_insert(u) ==
    /\ upc[u] = "insert"
    /\ UNCHANGED <<blobs, ingest_pdf, cvars, xvars>>
    /\ LET h == calculate_sha256(ucontent[u])
           row == NewDocumentRow(u, ucontent[u])
       IN
       IF txStatus = "INERROR"
       THEN /\ UploadFails(u, "InFailedSqlTransaction")
            /\ UNCHANGED <<dbvars, faults>>
       ELSE IF SelectBySha(h) # {}
       THEN /\ ExecError
            /\ UploadFails(u, "UniqueViolation")
            /\ UNCHANGED faults
       ELSE \E fault \in FaultChoices :
              IF fault
              THEN /\ ExecError
                   /\ UploadFails(u, "DatabaseError")
                   /\ faults' = faults + 1
              ELSE /\ ExecOk([working EXCEPT !.docs = @ \cup {row}])
                   /\ upc' = [upc EXCEPT ![u] = "commit"]
                   /\ UNCHANGED <<ucontent, uresp, faults>>

\* await conn.commit(); background_tasks.add_task(process_pdf_pages, ...);
\* return DocumentResponse(doc_id=doc_id, ..., status="processing").
upload_commit(u) ==
    /\ upc[u] = "commit"
    /\ Commit
    /\ upc' = [upc EXCEPT ![u] = "publish"]
    /\ uresp' = [uresp EXCEPT ![u] = CreatedResponse(u)]
    /\ UNCHANGED <<ucontent, blobs, ingest_pdf, faults, cvars, xvars>>

\* The background task, run after the response was sent: publish
\* {doc_id, s3_uri, sha256} to ingest.pdf.  An exception of the publish
\* ends the task; nothing retries it.
process_pdf_pages(u) ==
    /\ upc[u] = "publish"
    /\ upc' = [upc EXCEPT ![u] = "done"]
    /\ UNCHANGED <<ucontent, uresp, dbvars, blobs, cvars, xvars>>
    /\ LET h == calculate_sha256(ucontent[u]) IN
       \E fault \in FaultChoices :
          IF fault
          THEN /\ faults' = faults + 1
               /\ UNCHANGED ingest_pdf
          ELSE /\ ingest_pdf' = Append(ingest_pdf,
                     [doc_id |-> NewDocId(u), s3_uri |-> S3Key(h), sha256 |-> h])
               /\ UNCHANGED faults

----------------------------------------------------------------------------
\* POST /compare (compare_documents).

\* raise HTTPException(500, ...): the request is over.
CompareFails(c, why) ==
    /\ cpc' = [cpc EXCEPT ![c] = "done"]
    /\ cresp' = [cresp EXCEPT ![c] = [code |-> 500, result |-> "null", detail |-> why]]

\* An UPDATE that finds its rows by the two document ids instead of the
\* comparison id: UPDATE comparisons SET ... WHERE left_doc_id = ... AND
\* right_doc_id = ...
UpdateComparisonByPair(c, row) ==
    IF working.comps[c].status = "absent"
    THEN working
    ELSE [working EXCEPT !.comps =
            [k \in AllCompares |->
               IF /\ working.comps[k].status # "absent"
                  /\ working.comps[k].left = working.comps[c].left
                  /\ working.comps[k].right = working.comps[c].right
               THEN row
               ELSE working.comps[k]]]

\* UPDATE comparisons SET ... WHERE id = c: a statement on no row changes
\* nothing and raises nothing.
UpdateComparison(c, row) ==
    IF working.comps[c].status = "absent"
    THEN working
    ELSE [working EXCEPT !.comps[c] = row]

\* SET status = "completed", result = json.dumps(result), completed_at = utcnow()
CompletedRow(old, result) ==
    [old EXCEPT !.status = "completed", !.result = result, !.completed_at = "set"]

\* A failure handler that also stamps the row: SET status = "failed",
\* completed_at = utcnow().
FailedRowStamped(old) == [old EXCEPT !.status = "failed", !.completed_at = "set"]

\* SET status = "failed"
FailedRow(old) == [old EXCEPT !.status = "failed"]

\* comparison_id = str(uuid.uuid4()); the request body names two documents.
compare_start(c, pair) ==
    /\ cpc[c] = "idle"
    /\ cpc' = [cpc EXCEPT ![c] = "insert"]
    /\ creq' = [creq EXCEPT ![c] = pair]
    /\ UNCHANGED <<cengine, engineCalls, cresp, cseen, dbvars, blobs, ingest_pdf, faults, uvars, xvars>>

\* INSERT INTO comparisons (id, left_doc_id, right_doc_id, status, created_at)
\* VALUES (..., "processing", ...); an exception is answered with a 500.
compare_insert(c) ==
    /\ cpc[c] = "insert"
    /\ UNCHANGED <<creq, cengine, engineCalls, cseen, blobs, ingest_pdf, uvars, xvars>>
    /\ IF txStatus = "INERROR"
       THEN /\ CompareFails(c, "Database error")
            /\ UNCHANGED <<dbvars, faults>>
       ELSE \E fault \in FaultChoices :
              IF fault
              THEN /\ ExecError
                   /\ CompareFails(c, "Database error")
                   /\ faults' = faults + 1
              ELSE /\ ExecOk([working EXCEPT !.comps[c] =
                                [status |-> "processing", result |-> "null",
                                 completed_at |-> "null",
                                 left |-> creq[c][1], right |-> creq[c][2]]])
                   /\ cpc' = [cpc EXCEPT ![c] = "commit_insert"]
                   /\ UNCHANGED <<cresp, faults>>

\* await conn.commit() of the INSERT; then the engine is called.
compare_commit_insert(c) ==
    /\ cpc[c] = "commit_insert"
    /\ Commit
    /\ cpc' = [cpc EXCEPT ![c] = "rpc"]
    /\ UNCHANGED <<creq, cengine, engineCalls, cresp, cseen, blobs, ingest_pdf, faults, uvars, xvars>>

\* response = await client.post("http://rust-comparator:8001/compare", ...,
\* timeout=300.0): a 200 with a result, or one of the failures, each of which
\* ends in a handler that writes status = "failed".
compare_rpc(c, answer) ==
    /\ cpc[c] = "rpc"
    /\ cengine' = [cengine EXCEPT ![c] = answer]
    /\ engineCalls' = [engineCalls EXCEPT ![c] = @ + 1]
    /\ cpc' = [cpc EXCEPT ![c] =
                 IF answer \in EngineResults THEN "update_completed"
                 ELSE "update_failed"]
    /\ UNCHANGED <<creq, cresp, cseen, dbvars, blobs, ingest_pdf, faults, uvars, xvars>>

\* UPDATE comparisons SET status = "completed", result, completed_at
\* WHERE id = comparison_id; an exception of it is caught by
\* `except Exception`, whose handler writes status = "failed".
compare_update_completed(c) ==
    /\ cpc[c] = "update_completed"
    /\ UNCHANGED <<creq, cengine, engineCalls, cresp, cseen, blobs, ingest_pdf, faults, uvars, xvars>>
    /\ IF txStatus = "INERROR"
       THEN /\ cpc' = [cpc EXCEPT ![c] = "update_failed"]
            /\ UNCHANGED dbvars
       ELSE /\ ExecOk(UpdateComparison(c, CompletedRow(working.comps[c], cengine[c])))
            /\ cpc' = [cpc EXCEPT ![c] = "commit_completed"]

\* await conn.commit(); return result
compare_commit_completed(c) ==
    /\ cpc[c] = "commit_completed"
    /\ Commit
    /\ cpc' = [cpc EXCEPT ![c] = "done"]
    /\ cresp' = [cresp EXCEPT ![c] =
                   [code |-> 200, result |-> cengine[c], detail |-> "ok"]]
    /\ UNCHANGED <<creq, cengine, engineCalls, cseen, blobs, ingest_pdf, faults, uvars, xvars>>

\* The except handlers: UPDATE comparisons SET status = "failed" WHERE id =
\* comparison_id.  An exception raised inside a handler leaves it: the
\* request ends with a 500 and the remaining handler code is skipped.
compare_update_failed(c) ==
    /\ cpc[c] = "update_failed"
    /\ UNCHANGED <<creq, cengine, engineCalls, cseen, blobs, ingest_pdf, faults, uvars, xvars>>
    /\ IF txStatus = "INERROR"
       THEN /\ CompareFails(c, "InFailedSqlTransaction")
            /\ UNCHANGED dbvars
       ELSE /\ ExecOk(UpdateComparison(c, FailedRow(working.comps[c])))
            /\ cpc' = [cpc EXCEPT ![c] = "commit_failed"]
            /\ UNCHANGED cresp

\* await conn.commit(); raise HTTPException(500, ...)
compare_commit_failed(c) ==
    /\ cpc[c] = "commit_failed"
    /\ Commit
    /\ CompareFails(c, "Comparison failed")
    /\ UNCHANGED <<creq, cengine, engineCalls, cseen, blobs, ingest_pdf, faults, uvars, xvars>>

----------------------------------------------------------------------------
\* GET /comparisons/{comparison_id} (get_comparison): SELECT * FROM
\* comparisons WHERE id = %s on the shared connection; 404 when there is no
\* row, else the row's fields.  An exception of the SELECT is a 500.
get_comparison(c) ==
    /\ UNCHANGED <<cpc, creq, cengine, engineCalls, cresp, blobs, ingest_pdf, faults, uvars, xvars>>
    /\ IF txStatus = "INERROR"
       THEN /\ cseen' = [cseen EXCEPT ![c] = [NotRead EXCEPT !.code = 500]]
            /\ UNCHANGED dbvars
       ELSE /\ ExecOk(working)
            /\ cseen' = [cseen EXCEPT ![c] =
                  IF working.comps[c].status = "absent"
                  THEN [NotRead EXCEPT !.code = 404]
                  ELSE [code |-> 200,
                        status |-> working.comps[c].status,
                        result |-> working.comps[c].result,
                        completed_at |-> working.comps[c].completed_at]]

----------------------------------------------------------------------------
\* GET /comparisons/{comparison_id}/report (get_comparison_report).

\* `not result`: the column is NULL, or the stored JSON object has no key.
Falsy(result) == result = "null" \/ DOMAIN EngineBody(result) = {}

\* template.render(comparison_id=..., timestamp=..., **result): the summary
\* numbers and the rows of the table are the stored object's own keys.
Render(result) ==
    [matches |-> EngineBody(result).matches,
     compliant_count |-> EngineBody(result).compliant_count,
     non_compliant_count |-> EngineBody(result).non_compliant_count,
     compliant_percentage |-> EngineBody(result).compliant_percentage,
     non_compliant_percentage |-> EngineBody(result).non_compliant_percentage]

\* SELECT * FROM comparisons WHERE id = %s; 404 without a row, 400 when
\* `not result`, else the rendered HTML.  An exception of the SELECT is a 500.
get_comparison_report(c) ==
    /\ UNCHANGED <<cvars, blobs, ingest_pdf, faults, uvars, evars, kvars>>
    /\ IF txStatus = "INERROR"
       THEN /\ report' = [id |-> c, code |-> 500, body |-> NoRender]
            /\ UNCHANGED dbvars
       ELSE /\ ExecOk(working)
            /\ report' =
                  IF working.comps[c].status = "absent"
                  THEN [id |-> c, code |-> 404, body |-> NoRender]
                  ELSE IF Falsy(working.comps[c].result)
                  THEN [id |-> c, code |-> 400, body |-> NoRender]
                  ELSE [id |-> c, code |-> 200,
                        body |-> Render(working.comps[c].result)]

----------------------------------------------------------------------------
\* The lazily established connections (get_db, get_rabbitmq_channel).  The
\* callers are the upload requests (get_db) and their background tasks
\* (get_rabbitmq_channel); startup has called get_db before any request.

AllQueues == {"page.ready", "ingest.pdf"}
nonkvars == <<txStatus, committed, working, blobs, ingest_pdf,
              upc, ucontent, uresp, cpc, creq, cengine, cresp, cseen,
              engineCalls, report, evars>>
dbk == <<db_conn, dbOpen, dbMade, dbpc, dbgot>>
busk == <<rabbitmq_connection, rabbitmq_channel, busOpen, declared,
          chpc, chconn, chgot>>

\* The store closes the connection (restart, network): db_conn.closed.
db_closed ==
    /\ faults < MaxFaults
    /\ db_conn \in dbOpen
    /\ dbOpen' = dbOpen \ {db_conn}
    /\ faults' = faults + 1
    /\ UNCHANGED <<db_conn, dbMade, dbpc, dbgot, busk, nonkvars>>

\* if db_conn is None or db_conn.closed: ... else return db_conn
get_db_check(t) ==
    /\ dbpc[t] = "idle"
    /\ IF db_conn = 0 \/ db_conn \notin dbOpen
       THEN /\ dbpc' = [dbpc EXCEPT ![t] = "connecting"]
            /\ UNCHANGED dbgot
       ELSE /\ dbpc' = [dbpc EXCEPT ![t] = "done"]
            /\ dbgot' = [dbgot EXCEPT ![t] = db_conn]
    /\ UNCHANGED <<db_conn, dbOpen, dbMade, busk, faults, nonkvars>>

\* db_conn = await psycopg.AsyncConnection.connect(DATABASE_URL); return db_conn
get_db_connected(t) ==
    /\ dbpc[t] = "connecting"
    /\ dbMade' = dbMade + 1
    /\ dbOpen' = dbOpen \cup {dbMade + 1}
    /\ db_conn' = dbMade + 1
    /\ dbpc' = [dbpc EXCEPT ![t] = "done"]
    /\ dbgot' = [dbgot EXCEPT ![t] = dbMade + 1]
    /\ UNCHANGED <<busk, faults, nonkvars>>

\* if rabbitmq_connection is None or rabbitmq_connection.is_closed: ...
\* else return rabbitmq_channel
get_rabbitmq_channel_check(t) ==
    /\ chpc[t] = "idle"
    /\ IF rabbitmq_connection = 0 \/ rabbitmq_connection \notin busOpen
       THEN /\ chpc' = [chpc EXCEPT ![t] = "connecting"]
            /\ UNCHANGED chgot
       ELSE /\ chpc' = [chpc EXCEPT ![t] = "done"]
            /\ chgot' = [chgot EXCEPT ![t] = rabbitmq_channel]
    /\ UNCHANGED <<rabbitmq_connection, rabbitmq_channel, busOpen, declared,
                   chconn, dbk, faults, nonkvars>>

\* rabbitmq_connection = await aio_pika.connect_robust(BROKER_URL); then
\* rabbitmq_connection.channel() is called on it.
get_rabbitmq_channel_connected(t) ==
    /\ chpc[t] = "connecting"
    /\ LET k == Cardinality(busOpen) + 1 IN
       /\ busOpen' = busOpen \cup {k}
       /\ rabbitmq_connection' = k
       /\ chconn' = [chconn EXCEPT ![t] = k]
    /\ chpc' = [chpc EXCEPT ![t] = "channel"]
    /\ UNCHANGED <<rabbitmq_channel, declared, chgot, dbk, faults, nonkvars>>

\* rabbitmq_channel = await rabbitmq_connection.channel(); then
\* declare_queue("page.ready") is sent.
get_rabbitmq_channel_opened(t) ==
    /\ chpc[t] = "channel"
    /\ rabbitmq_channel' = chconn[t]
    /\ chpc' = [chpc EXCEPT ![t] = "declare_ready"]
    /\ UNCHANGED <<rabbitmq_connection, busOpen, declared, chconn, chgot,
                   dbk, faults, nonkvars>>

\* await rabbitmq_channel.declare_queue("page.ready", durable=True)
get_rabbitmq_channel_declared_ready(t) ==
    /\ chpc[t] = "declare_ready"
    /\ declared' = declared \cup {"page.ready"}
    /\ chpc' = [chpc EXCEPT ![t] = "declare_ingest"]
    /\ UNCHANGED <<rabbitmq_connection, rabbitmq_channel, busOpen, chconn,
                   chgot, dbk, faults, nonkvars>>

\* await rabbitmq_channel.declare_queue("ingest.pdf", durable=True);
\* return rabbitmq_channel
get_rabbitmq_channel_declared_ingest(t) ==
    /\ chpc[t] = "declare_ingest"
    /\ declared' = declared \cup {"ingest.pdf"}
    /\ chpc' = [chpc EXCEPT ![t] = "done"]
    /\ chgot' = [chgot EXCEPT ![t] = rabbitmq_channel]
    /\ UNCHANGED <<rabbitmq_connection, rabbitmq_channel, busOpen, chconn,
                   dbk, faults, nonkvars>>

ConnectNext ==
    \/ db_closed
    \/ \E t \in Uploads : get_db_check(t)
    \/ \E t \in Uploads : get_db_connected(t)
    \/ \E t \in Uploads : get_rabbitmq_channel_check(t)
    \/ \E t \in Uploads : get_rabbitmq_channel_connected(t)
    \/ \E t \in Uploads : get_rabbitmq_channel_opened(t)
    \/ \E t \in Uploads : get_rabbitmq_channel_declared_ready(t)
    \/ \E t \in Uploads : get_rabbitmq_channel_declared_ingest(t)

SpecConnect == Init /\ [][ConnectNext]_vars

----------------------------------------------------------------------------
\* The embedding worker (src/services/embedder/main.py) and its queue.

\* json.loads(message.body.decode()) raises on a body that is not JSON.
JsonLoads(body) == body.json
\* texts = [chunk["text"] for chunk in chunks] raises KeyError on a chunk
\* without a "text" key.
TextsRaise(body) == \E i \in 1..Len(body.chunks) : ~body.chunks[i].has_text
\* The body leaves process_chunks by an exception.
Raises(body) == ~JsonLoads(body) \/ TextsRaise(body)
Key(body) == <<body.doc_id, body.page_no>>

\* message.process(requeue=True): the broker puts the message back.
QueueAfterRejectRequeue(q, m) ==
    Append(q, [id |-> m.id, body |-> m.body, redelivered |-> TRUE])

\* message.process() rejects with requeue=False: the broker drops the
\* message, the queue is as it was.
QueueAfterReject(q, m) == q
\* A producer publishes a body to page.chunked.
publish_chunked(body) ==
    /\ Len(published) < NumMessages
    /\ published' = Append(published, body)
    /\ page_chunked' = Append(page_chunked,
           [id |-> Len(published) + 1, body |-> body, redelivered |-> FALSE])
    /\ UNCHANGED <<delivery, encodes, acked, rejected, faults, gvars>>

\* queue.consume(process_chunks): the broker hands the first ready message
\* to the consumer; it stays unacknowledged.
consume ==
    /\ delivery.stage = "none"
    /\ page_chunked # <<>>
    /\ delivery' = [id |-> Head(page_chunked).id, body |-> Head(page_chunked).body,
                    redelivered |-> Head(page_chunked).redelivered,
                    stage |-> "delivered"]
    /\ page_chunked' = Tail(page_chunked)
    /\ UNCHANGED <<published, encodes, acked, rejected, faults, gvars>>

\* The body of process_chunks, from json.loads to model.encode; it runs
\* without an await.  model.encode is called when texts is not empty.
process_chunks ==
    /\ delivery.stage = "delivered"
    /\ IF Raises(delivery.body)
       THEN /\ delivery' = [delivery EXCEPT !.stage = "reject"]
            /\ UNCHANGED encodes
       ELSE /\ delivery' = [delivery EXCEPT !.stage = "ack"]
            /\ encodes' = IF delivery.body.chunks # <<>>
                          THEN [encodes EXCEPT ![Key(delivery.body)] = @ + 1]
                          ELSE encodes
    /\ UNCHANGED <<published, page_chunked, acked, rejected, faults, gvars>>

\* The exit of `async with message.process()`: ack after a normal exit,
\* reject(requeue=False) after an exception; the exception ends this
\* callback's task only.
message_process_exit ==
    /\ delivery.stage \in {"ack", "reject"}
    /\ delivery' = NoDelivery
    /\ IF delivery.stage = "ack"
       THEN /\ acked' = acked \cup {delivery.id}
            /\ UNCHANGED <<rejected, page_chunked>>
       ELSE /\ rejected' = rejected \cup {delivery.id}
            /\ page_chunked' = QueueAfterReject(page_chunked, delivery)
            /\ UNCHANGED acked
    /\ UNCHANGED <<published, encodes, faults, gvars>>

\* The connection to the broker is lost while a message is unacknowledged:
\* the broker puts it back at the head of the queue, marked redelivered, and
\* connect_robust restores the consumer.
connection_lost ==
    /\ delivery.stage # "none"
    /\ faults < MaxFaults
    /\ faults' = faults + 1
    /\ page_chunked' = <<[id |-> delivery.id, body |-> delivery.body,
                          redelivered |-> TRUE]>> \o page_chunked
    /\ delivery' = NoDelivery
    /\ UNCHANGED <<published, encodes, acked, rejected, gvars>>

EmbedderNext ==
    \/ \E body \in PageChunkedBodies : publish_chunked(body)
    \/ consume
    \/ process_chunks
    \/ message_process_exit
    \/ connection_lost

SpecEmbedder == Init /\ [][EmbedderNext]_vars

----------------------------------------------------------------------------
\* The event loop runs any coroutine that is ready.
Next ==
    \/ \E u \in Uploads, c \in Contents : upload_read(u, c)
    \/ \E u \in Uploads : upload_select(u)
    \/ \E u \in Uploads : upload_reselect(u)
    \/ \E u \in Uploads : upload_insert(u)
    \/ \E u \in Uploads : upload_commit(u)
    \/ \E u \in Uploads : process_pdf_pages(u)
    \/ \E c \in Compares, pair \in DocPairs : compare_start(c, pair)
    \/ \E c \in Compares : compare_insert(c)
    \/ \E c \in Compares : compare_commit_insert(c)
    \/ \E c \in Compares, answer \in EngineResults \cup EngineFailures :
          compare_rpc(c, answer)
    \/ \E c \in Compares : compare_update_completed(c)
    \/ \E c \in Compares : compare_commit_completed(c)
    \/ \E c \in Compares : compare_update_failed(c)
    \/ \E c \in Compares : compare_commit_failed(c)
    \/ \E c \in Compares : get_comparison(c)

Spec == Init /\ [][Next]_vars

\* No request handler is between its first and its last await (background
\* publish tasks may still be pending).
Quiescent ==
    /\ \A u \in Uploads : upc[u] \in {"idle", "publish", "done"}
    /\ \A c \in Compares : cpc[c] \in {"idle", "done"}

\* A client that sends one upload or compare request at a time: the next
\* request is sent after the response to the previous one.
SeqNext ==
    \/ Quiescent /\ \E u \in Uploads, c \in Contents : upload_read(u, c)
    \/ \E u \in Uploads : upload_select(u)
    \/ \E u \in Uploads : upload_reselect(u)
    \/ \E u \in Uploads : upload_insert(u)
    \/ \E u \in Uploads : upload_commit(u)
    \/ \E u \in Uploads : process_pdf_pages(u)
    \/ Quiescent /\ \E c \in Compares, pair \in DocPairs : compare_start(c, pair)
    \/ \E c \in Compares : compare_insert(c)
    \/ \E c \in Compares : compare_commit_insert(c)
    \/ \E c \in Compares, answer \in EngineResults \cup EngineFailures :
          compare_rpc(c, answer)
    \/ \E c \in Compares : compare_update_completed(c)
    \/ \E c \in Compares : compare_commit_completed(c)
    \/ \E c \in Compares : compare_update_failed(c)
    \/ \E c \in Compares : compare_commit_failed(c)

SpecSeq == Init /\ [][SeqNext]_vars

\* Concurrent POST /upload requests only.
IngestNext ==
    \/ \E u \in Uploads, c \in Contents : upload_read(u, c)
    \/ \E u \in Uploads : upload_select(u)
    \/ \E u \in Uploads : upload_reselect(u)
    \/ \E u \in Uploads : upload_insert(u)
    \/ \E u \in Uploads : upload_commit(u)
    \/ \E u \in Uploads : process_pdf_pages(u)

SpecIngest == Init /\ [][IngestNext]_vars

\* Every upload racing with one compare request on the shared connection,
\* nobody reading.  (A further compare request meets the others only through
\* the connection's transaction, as an upload does.)
RacingCompare == {c \in Compares : c = 1}

RaceNext ==
    \/ \E u \in Uploads, c \in Contents : upload_read(u, c)
    \/ \E u \in Uploads : upload_select(u)
    \/ \E u \in Uploads : upload_reselect(u)
    \/ \E u \in Uploads : upload_insert(u)
    \/ \E u \in Uploads : upload_commit(u)
    \/ \E u \in Uploads : process_pdf_pages(u)
    \/ \E c \in RacingCompare, pair \in DocPairs : compare_start(c, pair)
    \/ \E c \in RacingCompare : compare_insert(c)
    \/ \E c \in RacingCompare : compare_commit_insert(c)
    \/ \E c \in RacingCompare, answer \in EngineResults \cup EngineFailures :
          compare_rpc(c, answer)
    \/ \E c \in RacingCompare : compare_update_completed(c)
    \/ \E c \in RacingCompare : compare_commit_completed(c)
    \/ \E c \in RacingCompare : compare_update_failed(c)
    \/ \E c \in RacingCompare : compare_commit_failed(c)

SpecRace == Init /\ [][RaceNext]_vars

\* No compare request is between its first and its last await.
AllQuiet == \A c \in AllCompares : cpc[c] \in {"idle", "done"}

\* Compare requests only: the first ones arrive at any time, and a client
\* whose compare was answered with an error sends the same two document ids
\* again, one resubmission at a time.
ResubmitNext ==
    \/ \E c \in Compares, pair \in DocPairs : compare_start(c, pair)
    \/ \E c \in Resubmits, p \in AllCompares :
          /\ AllQuiet
          /\ cresp[p].code = 500
          /\ compare_start(c, creq[p])
    \/ \E c \in AllCompares : compare_insert(c)
    \/ \E c \in AllCompares : compare_commit_insert(c)
    \/ \E c \in AllCompares, answer \in EngineResults \cup EngineFailures :
          compare_rpc(c, answer)
    \/ \E c \in AllCompares : compare_update_completed(c)
    \/ \E c \in AllCompares : compare_commit_completed(c)
    \/ \E c \in AllCompares : compare_update_failed(c)
    \/ \E c \in AllCompares : compare_commit_failed(c)

SpecResubmit == Init /\ [][ResubmitNext]_vars

\* Compare requests and readers of the report.
ReportNext ==
    \/ \E c \in Compares, pair \in DocPairs : compare_start(c, pair)
    \/ \E c \in Compares : compare_insert(c)
    \/ \E c \in Compares : compare_commit_insert(c)
    \/ \E c \in Compares, answer \in EngineResults \cup EngineFailures :
          compare_rpc(c, answer)
    \/ \E c \in Compares : compare_update_completed(c)
    \/ \E c \in Compares : compare_commit_completed(c)
    \/ \E c \in Compares : compare_update_failed(c)
    \/ \E c \in Compares : compare_commit_failed(c)
    \/ \E c \in Compares : get_comparison_report(c)

SpecReport == Init /\ [][ReportNext]_vars

----------------------------------------------------------------------------
\* Vocabulary of the properties.

Hashes == {calculate_sha256(c) : c \in Contents}
\* The upload requests that carry the content with digest h.
UploadsOf(h) == {u \in Uploads : ucontent[u] # "none" /\ calculate_sha256(ucontent[u]) = h}
\* The committed Document rows of digest h.
RowsOf(h) == {r \in committed.docs : r.sha256 = h}
\* The positions of ingest.pdf holding an event of digest h / of document d.
EventsOf(h) == {i \in 1..Len(ingest_pdf) : ingest_pdf[i].sha256 = h}
EventsOfDoc(d) == {i \in 1..Len(ingest_pdf) : ingest_pdf[i].doc_id = d}
Terminal == {"completed", "failed"}

\* C1: when N >= 2 ingest calls with identical bytes have all ended (and no
\* infrastructure fault was injected), exactly one Document row is stored for
\* that digest and at most one ingest.pdf event was published for it.
C1_ConcurrentIngestConverges ==
    \A h \in Hashes :
        ( /\ Cardinality(UploadsOf(h)) >= 2
          /\ \A u \in UploadsOf(h) : upc[u] = "done"
          /\ faults = 0 )
        => /\ Cardinality(RowsOf(h)) = 1
           /\ Cardinality(EventsOf(h)) <= 1

\* C2: the ingest call that loses the uniqueness conflict on sha256 ends with
\* a successful response carrying the doc_id of the winner's row.
C2_LoserReturnsWinnersRecord ==
    \A u \in Uploads :
        (upc[u] = "done" /\ uresp[u].detail = "UniqueViolation")
        => /\ uresp[u].code = 200
           /\ \E r \in RowsOf(calculate_sha256(ucontent[u])) : uresp[u].doc_id = r.id

\* C3: ingest calls made one after the other with identical bytes return the
\* same doc_id (the second succeeds when the first did and no infrastructure
\* fault was injected), and then exactly one Document row and at most one
\* ingest.pdf event exist for that content.
C3_SequentialIngestIdempotent ==
    \A u, v \in Uploads :
        ( /\ u # v
          /\ ucontent[u] # "none"
          /\ ucontent[u] = ucontent[v]
          /\ uresp[u].code = 200
          /\ upc[v] = "done" )
        => /\ faults = 0 => uresp[v].code = 200
           /\ uresp[v].code = 200 =>
                /\ uresp[v].doc_id = uresp[u].doc_id
                /\ \E r \in RowsOf(calculate_sha256(ucontent[u])) :
                      /\ RowsOf(calculate_sha256(ucontent[u])) = {r}
                      /\ r.id = uresp[u].doc_id
                /\ Cardinality(EventsOf(calculate_sha256(ucontent[u]))) <= 1

\* C3's case: a second sequential upload of the same bytes answered from the
\* stored row.
C3_Witness ==
    \E u, v \in Uploads :
        /\ u # v
        /\ ucontent[u] = ucontent[v]
        /\ uresp[u].detail = "created"
        /\ uresp[v].detail = "existing"
        /\ uresp[v].code = 200

\* C4: once GET /comparisons/{id} has shown a Comparison with status
\* completed or failed, every later successful read of it shows the same
\* status, result and completed_at.  Stated for fault-free runs.
C4_TerminalImmutable ==
    [][ faults' = 0 =>
        \A c \in Compares :
            ( /\ cseen[c].code = 200
              /\ cseen[c].status \in Terminal
              /\ cseen'[c].code = 200 )
            => cseen'[c] = cseen[c] ]_vars

\* C5: when the engine call of a compare request failed (non-200, timeout or
\* connection failure) and the request has ended, the stored row has status
\* failed, no result and no completed_at, and the caller got an error.
C5_EngineFailureRecorded ==
    \A c \in Compares :
        (cpc[c] = "done" /\ cengine[c] \in EngineFailures /\ faults = 0)
        => /\ committed.comps[c].status = "failed"
           /\ committed.comps[c].result = "null"
           /\ committed.comps[c].completed_at = "null"
           /\ cresp[c].code = 500

\* C6: a compare request whose row was created and whose caller got an error
\* has status failed stored at that moment, never processing.
C6_FailedBeforeError ==
    \A c \in Compares :
        ( /\ cresp[c].code = 500
          /\ committed.comps[c].status # "absent"
          /\ faults = 0 )
        => committed.comps[c].status = "failed"

\* C7: when a compare request has ended (after its last step nothing writes
\* its row any more), the row it created has a terminal status.
C7_EndsTerminal ==
    \A c \in Compares :
        ( /\ cpc[c] = "done"
          /\ committed.comps[c].status # "absent"
          /\ faults = 0 )
        => committed.comps[c].status \in Terminal

\* C8: a compare request all of whose store writes were accepted (it answered
\* 200) leaves its Comparison row persisted with its result, whatever the
\* ingest requests running beside it do.
C8_CompareUnaffectedByIngest ==
    \A c \in Compares :
        cresp[c].code = 200
        => /\ committed.comps[c].status = "completed"
           /\ committed.comps[c].result = cresp[c].result

\* C9: every ingest that created a Document and whose publish task has ended
\* has exactly one ingest.pdf event on the bus, also when the publish failed.
C9_CreatedDocumentPublishedOnce ==
    \A u \in Uploads :
        (upc[u] = "done" /\ uresp[u].detail = "created")
        => Cardinality(EventsOfDoc(NewDocId(u))) = 1

\* C10: an ingest request that ended with a server error (a blob-store or
\* metadata-store write of it failed) has left no Document row of its own,
\* committed or uncommitted, and no ingest.pdf event is published for it.
C10_FailedIngestLeavesNothing ==
    \A u \in Uploads :
        uresp[u].code = 500
        => /\ \A r \in committed.docs \cup working.docs : r.id # NewDocId(u)
           /\ EventsOfDoc(NewDocId(u)) = {}
           /\ upc[u] = "done"

\* C10's case: the INSERT of a request failed after its blob was written.
C10_Witness ==
    \E u \in Uploads :
        /\ uresp[u].detail = "DatabaseError"
        /\ uresp[u].code = 500
        /\ S3Key(calculate_sha256(ucontent[u])) \in blobs
        /\ RowsOf(calculate_sha256(ucontent[u])) = {}

\* C11: every Comparison row, committed or as the open transaction sees it,
\* has a result exactly when its status is completed, and has completed_at
\* set exactly when its status is completed.
C11_ResultIffCompleted ==
    \A c \in AllCompares :
        \A row \in {committed.comps[c], working.comps[c]} :
            row.status # "absent"
            => /\ row.result # "null" <=> row.status = "completed"
               /\ row.completed_at # "null" <=> row.status = "completed"

\* C11's case: the engine answered 200 with a result, the UPDATE to completed
\* was refused, and the row was stored as failed.
C11_Witness ==
    \E c \in AllCompares :
        /\ cengine[c] \in EngineResults
        /\ committed.comps[c].status = "failed"

\* C12: the steps of an ingest that finds a Document row for its digest leave
\* the metadata store, the blob store and the bus as they were, and its
\* response carries the stored row's id, filename, size, page_count, status
\* and created_at; the request creates no row of its own id and schedules no
\* publish.
C12_DedupHitReturnsStoredRecord ==
    [][ \A u \in Uploads :
          /\ (upc[u] = "select" /\ upc'[u] = "reselect")
             => UNCHANGED <<committed, working, blobs, ingest_pdf>>
          /\ (upc[u] = "reselect" /\ uresp'[u].code = 200)
             => /\ UNCHANGED <<committed, working, blobs, ingest_pdf>>
                /\ upc'[u] = "done"
                /\ \A r \in working.docs : r.id # NewDocId(u)
                /\ \E r \in SelectBySha(calculate_sha256(ucontent[u])) :
                      /\ uresp'[u].doc_id = r.id
                      /\ uresp'[u].doc =
                            [filename |-> r.filename, size |-> r.size,
                             sha256 |-> r.sha256, page_count |-> r.page_count,
                             status |-> r.status, created_at |-> r.created_at]
      ]_vars

\* C12's case: a dedup hit answered with another request's stored record.
C12_Witness ==
    \E u \in Uploads :
        /\ uresp[u].detail = "existing"
        /\ uresp[u].code = 200
        /\ uresp[u].doc_id # NewDocId(u)
        /\ uresp[u].doc.filename # Filename(u)
        /\ upc[u] = "done"

\* C13: when the engine answered 200 and the compare request has ended (no
\* fault injected), the stored row has status completed, completed_at set and
\* result equal to the engine's response, and the caller got that result.
C13_EngineSuccessPersisted ==
    \A c \in Compares :
        (cpc[c] = "done" /\ cengine[c] \in EngineResults /\ faults = 0)
        => /\ committed.comps[c].status = "completed"
           /\ committed.comps[c].completed_at # "null"
           /\ committed.comps[c].result = cengine[c]
           /\ cresp[c] = [code |-> 200, result |-> cengine[c], detail |-> "ok"]

\* C14: while a compare request is at its engine call, and after the call,
\* its row is committed (no fault injected); a request whose INSERT failed
\* never called the engine.
C14_RowCommittedBeforeEngine ==
    \A c \in Compares :
        /\ (cpc[c] = "rpc" /\ faults = 0)
           => committed.comps[c].status = "processing"
        /\ (cengine[c] # "none" /\ faults = 0)
           => committed.comps[c].status # "absent"
        /\ cresp[c].detail = "Database error" => cengine[c] = "none"

\* C15: no compare request ever sends more than one call to the engine, and
\* once a compare request has been answered with an error, no step of another
\* compare request (a resubmission with the same two document ids included)
\* uses its Comparison id or changes its stored row.
C15_OneCallAndNewIdOnResubmit ==
    [][ \A c \in AllCompares :
          /\ engineCalls'[c] <= 1
          /\ \A p \in AllCompares \ {c} :
                (cpc[p] = "done" /\ cresp[p].code = 500 /\ cpc'[c] # cpc[c])
                => /\ NewComparisonId(c) # NewComparisonId(p)
                   /\ committed'.comps[NewComparisonId(p)]
                        = committed.comps[NewComparisonId(p)]
                   /\ working'.comps[NewComparisonId(p)]
                        = working.comps[NewComparisonId(p)]
      ]_vars

\* C15's case: a compare failed at the engine and its row is stored failed;
\* the resubmission of the same two ids called the engine once and its own
\* row is stored completed.
C15_Witness ==
    \E p \in Compares, c \in Resubmits :
        /\ cengine[p] \in EngineFailures
        /\ cresp[p].code = 500
        /\ committed.comps[NewComparisonId(p)].status = "failed"
        /\ creq[c] = creq[p]
        /\ engineCalls[c] = 1
        /\ committed.comps[NewComparisonId(c)].status = "completed"

\* The published messages of page k.
PublishedOf(k) ==
    {i \in 1..Len(published) : published[i].json /\ Key(published[i]) = k}

\* C16: for a page whose PageChunked message was published once, however
\* often the broker delivers it, model.encode runs at most once.
C16_EmbeddedOncePerPage ==
    \A k \in PageKeys :
        Cardinality(PublishedOf(k)) <= 1 => encodes[k] <= 1

\* C17: a message that process_chunks cannot parse is rejected and is then
\* neither in the queue nor held by the worker; and whenever the queue is
\* empty and nothing is held, every published message that can be parsed has
\* been acknowledged and every other one has been rejected.
C17_MalformedDroppedOthersProcessed ==
    [][ /\ (delivery.stage = "delivered" /\ Raises(delivery.body)
             /\ delivery' # delivery /\ faults' = faults)
           => delivery'.stage = "reject"
        /\ (delivery.stage = "reject" /\ delivery' # delivery /\ faults' = faults)
           => /\ delivery' = NoDelivery
              /\ delivery.id \in rejected'
              /\ \A i \in 1..Len(page_chunked') : page_chunked'[i].id # delivery.id
        /\ (page_chunked' = <<>> /\ delivery'.stage = "none")
           => \A i \in 1..Len(published') :
                 /\ ~Raises(published'[i]) => i \in acked'
                 /\ Raises(published'[i]) => i \in rejected' /\ i \notin acked'
      ]_vars

\* C17's case: a message that cannot be parsed was rejected, and a message
\* published after it was processed and acknowledged.
C17_Witness ==
    \E i, j \in 1..Len(published) :
        /\ i < j
        /\ Raises(published[i])
        /\ i \in rejected
        /\ ~Raises(published[j])
        /\ published[j].chunks # <<>>
        /\ j \in acked
        /\ encodes[Key(published[j])] >= 1
        /\ page_chunked = <<>>

\* C18: a fault-free GET /comparisons/{id}/report that finds the committed
\* row with status completed answers 200 with a report, and one that finds
\* it with status processing or failed answers 400.
C18_ReportIffCompleted ==
    [][ \A c \in Compares :
          ( /\ report' # report
            /\ report'.id = c
            /\ working.comps[c] = committed.comps[c]
            /\ faults' = 0 )
          => /\ working.comps[c].status = "completed" => report'.code = 200
             /\ working.comps[c].status \in {"processing", "failed"}
                  => report'.code = 400
      ]_vars

\* C19: two ingest requests with distinct payloads that were both answered
\* with success carry distinct doc_ids, and a committed Document row exists
\* for each of them.
C19_DistinctPayloadsDistinctRows ==
    \A u, v \in Uploads :
        ( /\ u # v
          /\ ucontent[u] # "none" /\ ucontent[v] # "none"
          /\ ucontent[u] # ucontent[v]
          /\ uresp[u].code = 200 /\ uresp[v].code = 200 )
        => /\ uresp[u].doc_id # uresp[v].doc_id
           /\ \E r, q \in committed.docs :
                 /\ r # q
                 /\ r.id = uresp[u].doc_id
                 /\ r.sha256 = calculate_sha256(ucontent[u])
                 /\ q.id = uresp[v].doc_id
                 /\ q.sha256 = calculate_sha256(ucontent[v])

\* The number of matches of a list whose match_type is exact or similar.
CountCompliant(matches) ==
    Cardinality({i \in 1..Len(matches) : matches[i] \in {"exact", "similar"}})
Percentage(count, total) == IF total = 0 THEN 0 ELSE (100 * count) \div total

\* C20: the summary of every rendered report agrees with its match list:
\* compliant_count counts the exact and similar matches, non_compliant_count
\* the others, and the percentages are 100 * count / total.
C20_ReportCountsFromMatches ==
    (report.code = 200 /\ faults = 0)
    => LET b == report.body
           total == Len(b.matches)
       IN /\ b.compliant_count = CountCompliant(b.matches)
          /\ b.non_compliant_count = total - CountCompliant(b.matches)
          /\ b.compliant_count + b.non_compliant_count = total
          /\ b.compliant_percentage = Percentage(b.compliant_count, total)
          /\ b.non_compliant_percentage = Percentage(b.non_compliant_count, total)

\* C21: every call of get_rabbitmq_channel that has returned got a channel
\* (not None) and both queues were declared by then; at most one bus
\* connection is open; at most one store connection is open.
C21_OneConnectionUsableChannel ==
    /\ \A t \in Uploads :
          chpc[t] = "done" => chgot[t] # 0 /\ declared = AllQueues
    /\ Cardinality(busOpen) <= 1
    /\ Cardinality(dbOpen) <= 1

\* C22: with no fault injected, the INSERT of a compare request that runs
\* while no upload request is in flight (every upload that failed has ended
\* before it) is accepted by the store.
C22_LaterRequestSucceeds ==
    [][ \A c \in Compares :
          ( /\ faults' = 0
            /\ \A u \in Uploads : upc[u] \in {"idle", "publish", "done"}
            /\ cpc[c] = "insert"
            /\ cpc'[c] # "insert" )
          => /\ cpc'[c] = "commit_insert"
             /\ working'.comps[c].status = "processing"
      ]_vars

\* C23: with no fault injected, every event on ingest.pdf names a committed
\* Document row with its doc_id and sha256, and every committed Document row
\* has its blob stored under its digest's key.
C23_EventRowBlobOrder ==
    faults = 0
    => /\ \A i \in 1..Len(ingest_pdf) :
             \E r \in committed.docs :
                /\ r.id = ingest_pdf[i].doc_id
                /\ r.sha256 = ingest_pdf[i].sha256
       /\ \A r \in committed.docs : S3Key(r.sha256) \in blobs

====
